---- MODULE Spec2Model ----
(***************************************************************************)
(* Model of Beamio/Resources/BeamioWorker.py: the process-wide device      *)
(* session slot _DEVICE guarded by _LOCK, the shared _LAST_ERROR string,   *)
(* connect() and the install_apk() generator, run by concurrent callers.   *)
(*                                                                         *)
(* A caller is a thread.  It runs one call at a time; between two calls it *)
(* may hold a suspended install_apk generator that it resumes (next()),    *)
(* closes, or simply leaves suspended.  Library calls (keygen, the ADB     *)
(* handshake, urlopen, read, device.install, ...) return or raise: each    *)
(* outcome is a nondeterministic choice of the step that makes the call.   *)
(*                                                                         *)
(* Steps are cut where another caller can observe or delay the call: at    *)
(* the with statements, at the handshake, at the return of connect, at     *)
(* every yield, and around the download and the device install.  A raised  *)
(* exception and its handler (lines 57-59, 141-143) are one step: nothing  *)
(* the handler reads can change in between.                                *)
(***************************************************************************)
EXTENDS Integers, Sequences, FiniteSets, TLC

\* ---- bounds of the model ------------------------------------------------
NumCallers == 2      \* concurrent caller threads
MaxCalls == 3        \* calls started in one run: connect(), install_apk(), scan_url()
MaxTokens == 3       \* tags and text runs in a document fed to the link parser

Callers == 1..NumCallers

Loopback == "127.0.0.1"
Remote == "192.168.0.10"
Addresses == {Loopback, Remote}

None == 0            \* _DEVICE = None; sessions are numbered 1, 2, ...
Unset == -1          \* a local variable not assigned yet

\* what connect returns (the failure string without the exception's text)
ConnectedSim == "Connected (Simulation)"
Connected == "Connected"
ConnectionFailed == "Connection failed"
NotReturned == ""

\* what install_apk yields: the string, and the text of the exception in it
NoDevice == <<"No device connected.", "">>
Downloading == <<"Downloading APK...", "">>
Installing == <<"Installing APK...", "">>
Complete == <<"Install complete.", "">>
Failed(reason) == <<"Install failed", reason>>

\* what scan_url returns: the list of entries; NotScanned before it has returned
Returned(list) == <<"returned", list>>
NotScanned == <<"", <<>>>>

Free == <<"free", 0>>
ByConnect(t) == <<"connect", t>>
ByInstall(t) == <<"install", t>>

VARIABLES
    nCalls,       \* calls started so far
    LOCK,         \* _LOCK: Free, or who acquired it
    DEVICE,       \* _DEVICE: None or a session
    LAST_ERROR,   \* _LAST_ERROR
    keyfile,      \* the files at the resolved key path: "absent", "private", "both"
    nDevices,     \* sessions so far: AdbDeviceTcp objects whose connect() returned
    lastOk,       \* session of the connect that last left its critical section with "Connected"
    keygens,      \* calls of keygen() so far
    cpc,          \* per caller: position in connect()
    cdev,         \* per caller: connect's local `device` once its handshake has returned
    cret,         \* per caller: what its connect() returned, until it makes another call
    gpc,          \* per caller: position of its install_apk generator
    device,       \* per caller: the generator's local `device`: what line 115 read
    out,          \* per caller: elements the generator delivered
    gexc,         \* per caller: the exception the generator caught
    tmp,          \* per caller: "none", "dir" (temp_dir exists), "file" (payload.apk in it)
    requested,    \* per caller: urlopen() was called by this generator
    installedOn,  \* per caller: the session device.install() was invoked on
    cleanup,      \* per caller: lines 136-140 of this generator: "no" (not run), "ok", "failed"
    spc,          \* per caller: position in scan_url()
    sret,         \* per caller: what its scan_url() returned
    failure,      \* per caller: the description of the failure its latest call ended with,
                  \* "" when that call has not failed
    html,         \* the document fed to _ApkLinkParser when it is run on its own
    items         \* parser.items after that run

shared == <<nCalls, LOCK, DEVICE, LAST_ERROR, keyfile, nDevices, lastOk, keygens>>
cvars == <<cpc, cdev, cret>>
gvars == <<gpc, device, out, gexc, tmp, requested, installedOn, cleanup>>
svars == <<spc, sret>>
pvars == <<html, items>>
vars == <<shared, cvars, gvars, svars, failure, pvars>>

\* generator positions at which no code of the generator runs: not created,
\* suspended at a yield, finished (exhausted or closed: next() raises StopIteration)
Suspended == {"none", "yNoDevice", "yDownloading", "yInstalling", "yComplete", "yFailed", "done"}
\* a caller can start a call or resume its generator only when it runs nothing
Idle(t) == cpc[t] = "idle" /\ spc[t] = "idle" /\ gpc[t] \in Suspended

\* The module has just been imported.  The key path holds no key yet, or a
\* private key whose .pub is missing; a complete pair is what keygen leaves.
Init ==
    /\ nCalls = 0
    /\ LOCK = Free
    /\ DEVICE = None
    /\ LAST_ERROR = ""
    /\ keyfile \in {"absent", "private"}
    /\ nDevices = 0
    /\ lastOk = None
    /\ keygens = 0
    /\ cpc = [t \in Callers |-> "idle"]
    /\ cdev = [t \in Callers |-> Unset]
    /\ cret = [t \in Callers |-> NotReturned]
    /\ gpc = [t \in Callers |-> "none"]
    /\ device = [t \in Callers |-> Unset]
    /\ out = [t \in Callers |-> <<>>]
    /\ gexc = [t \in Callers |-> ""]
    /\ tmp = [t \in Callers |-> "none"]
    /\ requested = [t \in Callers |-> FALSE]
    /\ installedOn = [t \in Callers |-> Unset]
    /\ cleanup = [t \in Callers |-> "no"]
    /\ spc = [t \in Callers |-> "idle"]
    /\ sret = [t \in Callers |-> NotScanned]
    /\ failure = [t \in Callers |-> ""]
    /\ html = <<>>
    /\ items = NotScanned

\* _set_error(message)
set_error(message) == LAST_ERROR' = message

\* last_error()
last_error == LAST_ERROR

\* ---- connect(ip_address, key_path) ---------------------------------------

\* line 40 moved above the loopback test of line 37
Mut_connect(t, ip) ==
    /\ Idle(t)
    /\ set_error("")
    /\ nCalls < MaxCalls
    /\ nCalls' = nCalls + 1
    /\ IF ip = Loopback
       THEN /\ cret' = [cret EXCEPT ![t] = ConnectedSim]
            /\ UNCHANGED cpc
       ELSE /\ cpc' = [cpc EXCEPT ![t] = "acquire"]
            /\ cret' = [cret EXCEPT ![t] = NotReturned]
    /\ UNCHANGED <<LOCK, DEVICE, keyfile, nDevices, lastOk, keygens, cdev>>
    /\ UNCHANGED gvars
    /\ sret' = [sret EXCEPT ![t] = NotScanned]
    /\ failure' = [failure EXCEPT ![t] = ""]
    /\ UNCHANGED <<spc, pvars>>

\* lines 36-41: the loopback short-circuit; else clear the error and go on to
\* the with statement
connect(t, ip) ==
    /\ Idle(t)
    /\ nCalls < MaxCalls
    /\ nCalls' = nCalls + 1
    /\ IF ip = Loopback
       THEN /\ cret' = [cret EXCEPT ![t] = ConnectedSim]
            /\ UNCHANGED <<LAST_ERROR, cpc>>
       ELSE /\ set_error("")
            /\ cpc' = [cpc EXCEPT ![t] = "acquire"]
            /\ cret' = [cret EXCEPT ![t] = NotReturned]
    /\ UNCHANGED <<LOCK, DEVICE, keyfile, nDevices, lastOk, keygens, cdev>>
    /\ UNCHANGED gvars
    /\ sret' = [sret EXCEPT ![t] = NotScanned]
    /\ failure' = [failure EXCEPT ![t] = ""]
    /\ UNCHANGED <<spc, pvars>>

\* lines 57-59, reached by an exception raised inside the with block: leaving
\* the block releases the lock, the handler records the error and returns the
\* failure string
ConnectFail(t, reason) ==
    /\ LOCK' = Free
    /\ set_error(reason)
    /\ cpc' = [cpc EXCEPT ![t] = "idle"]
    /\ cret' = [cret EXCEPT ![t] = ConnectionFailed]
    /\ failure' = [failure EXCEPT ![t] = reason]

\* _resolve_key_path and lines 47-52: what the calls do to the key files and
\* which of them raises.  makedirs (line 29) raises before keygen is reached;
\* keygen (line 31) runs only when the private key file does not exist; the
\* reads (lines 47-50) need both files; then the signer is built (line 52).
KeyOutcomes == {"makedirs", "keygen", "readkey", "signer", "ok"}
\* keygen whatever the key path holds
Mut_keygen_called(o) == o # "makedirs"

\* lines 30-31: keygen(path) runs if the private key file is not there
keygen_called(o) == o # "makedirs" /\ keyfile = "absent"
resolved_keyfile(o) == IF keygen_called(o) /\ o # "keygen" THEN "both" ELSE keyfile
KeyOutcomePossible(o) ==
    /\ o = "keygen" => keyfile = "absent"
    /\ o \in {"signer", "ok"} => resolved_keyfile(o) = "both"

\* no mutual exclusion: the with statement never waits
Mut_LockAvailable == TRUE

\* line 45: the with statement waits until the lock is free
LockAvailable == LOCK = Free

\* lines 45-52: take the lock, resolve the key path, read both key files,
\* build the signer
ConnectAcquire(t) ==
    /\ cpc[t] = "acquire"
    /\ LockAvailable
    /\ \E o \in KeyOutcomes :
        /\ KeyOutcomePossible(o)
        /\ keygens' = IF keygen_called(o) THEN keygens + 1 ELSE keygens
        /\ keyfile' = resolved_keyfile(o)
        /\ IF o = "ok"
           THEN /\ LOCK' = ByConnect(t)
                /\ cpc' = [cpc EXCEPT ![t] = "handshake"]
                /\ UNCHANGED <<LAST_ERROR, cret, failure>>
           ELSE ConnectFail(t, o)
    /\ UNCHANGED <<DEVICE, nDevices, lastOk>>
    /\ UNCHANGED <<nCalls, cdev>>
    /\ UNCHANGED gvars
    /\ UNCHANGED <<svars, pvars>>

\* a failed handshake empties the slot
Mut_SlotClearedOnFailure(ok, dev) == IF ok THEN dev ELSE None

\* the slot written before the handshake is tried
Mut_SlotAfterHandshake(ok, dev) == dev

\* line 55: _DEVICE = device, reached only when device.connect() has returned
SlotAfterHandshake(ok, dev) == IF ok THEN dev ELSE DEVICE

\* sessions whose device.connect() has returned successfully.  An object whose
\* handshake raised is referenced by nothing afterwards; it takes no number.
authenticated == 1..nDevices

\* lines 53-55: construct the transport, run the handshake, install the session
ConnectHandshake(t) ==
    /\ cpc[t] = "handshake"
    /\ \E ok \in BOOLEAN :
        LET dev == nDevices + 1
        IN  /\ nDevices' = IF ok THEN dev ELSE nDevices
            /\ DEVICE' = SlotAfterHandshake(ok, dev)
            /\ IF ok
               THEN /\ cdev' = [cdev EXCEPT ![t] = dev]
                    /\ cpc' = [cpc EXCEPT ![t] = "return"]
                    /\ UNCHANGED <<LOCK, LAST_ERROR, cret, failure>>
               ELSE /\ ConnectFail(t, "handshake")
                    /\ UNCHANGED cdev
    /\ UNCHANGED <<keyfile, lastOk, keygens>>
    /\ UNCHANGED nCalls
    /\ UNCHANGED gvars
    /\ UNCHANGED <<svars, pvars>>

\* line 56: return "Connected" leaves the with block and releases the lock
ConnectReturn(t) ==
    /\ cpc[t] = "return"
    /\ LOCK' = Free
    /\ lastOk' = cdev[t]
    /\ cpc' = [cpc EXCEPT ![t] = "idle"]
    /\ cret' = [cret EXCEPT ![t] = Connected]
    /\ cdev' = [cdev EXCEPT ![t] = Unset]
    /\ UNCHANGED <<DEVICE, LAST_ERROR, keyfile, nDevices, keygens>>
    /\ UNCHANGED nCalls
    /\ UNCHANGED gvars
    /\ UNCHANGED <<svars, failure, pvars>>

\* ---- install_apk(url) ------------------------------------------------------

append(t, milestone) == out' = [out EXCEPT ![t] = Append(@, milestone)]

\* lines 111-112 (the call and the first next()): a new generator; its body
\* starts by clearing the error and then waits for the lock.  The url decides
\* nothing in the code: what the download does is chosen in Download.
install_apk(t) ==
    /\ Idle(t)
    /\ gpc[t] \in {"none", "done"}
    /\ nCalls < MaxCalls
    /\ nCalls' = nCalls + 1
    /\ set_error("")
    /\ gpc' = [gpc EXCEPT ![t] = "snapshot"]
    /\ device' = [device EXCEPT ![t] = Unset]
    /\ out' = [out EXCEPT ![t] = <<>>]
    /\ gexc' = [gexc EXCEPT ![t] = ""]
    /\ tmp' = [tmp EXCEPT ![t] = "none"]
    /\ requested' = [requested EXCEPT ![t] = FALSE]
    /\ installedOn' = [installedOn EXCEPT ![t] = Unset]
    /\ UNCHANGED <<LOCK, DEVICE, keyfile, nDevices, lastOk, keygens>>
    /\ cret' = [cret EXCEPT ![t] = NotReturned]
    /\ UNCHANGED <<cpc, cdev>>
    /\ cleanup' = [cleanup EXCEPT ![t] = "no"]
    /\ failure' = [failure EXCEPT ![t] = ""]
    /\ sret' = [sret EXCEPT ![t] = NotScanned]
    /\ UNCHANGED <<spc, pvars>>

\* the yield of line 120 indented into the with block
Mut_LockAfterSnapshot(t, slot) == ByInstall(t)

\* the lock when the generator is suspended at its first yield: line 116 is
\* inside the with block, line 120 is after it
LockAfterSnapshot(t, slot) == IF slot = None THEN ByInstall(t) ELSE Free

\* lines 114-120: take the lock, read _DEVICE, yield the first milestone
Snapshot(t) ==
    /\ gpc[t] = "snapshot"
    /\ LockAvailable
    /\ LOCK' = LockAfterSnapshot(t, DEVICE)
    /\ device' = [device EXCEPT ![t] = DEVICE]
    /\ IF DEVICE = None
       THEN /\ append(t, NoDevice)
            /\ gpc' = [gpc EXCEPT ![t] = "yNoDevice"]
       ELSE /\ append(t, Downloading)
            /\ gpc' = [gpc EXCEPT ![t] = "yDownloading"]
    /\ UNCHANGED <<nCalls, DEVICE, LAST_ERROR, keyfile, nDevices, lastOk, keygens>>
    /\ UNCHANGED <<gexc, tmp, requested, installedOn, cleanup>>
    /\ UNCHANGED cvars
    /\ UNCHANGED <<svars, failure, pvars>>

\* a handler that does not match the exception: it leaves the generator
Mut_InstallFail(t, reason) ==
    /\ gexc' = [gexc EXCEPT ![t] = reason]
    /\ gpc' = [gpc EXCEPT ![t] = "done"]
    /\ failure' = [failure EXCEPT ![t] = reason]
    /\ UNCHANGED <<LAST_ERROR, out>>

\* lines 141-143, reached by an exception raised inside the try block: the
\* handler records the error and yields the failure milestone
InstallFail(t, reason) ==
    /\ gexc' = [gexc EXCEPT ![t] = reason]
    /\ set_error(reason)
    /\ append(t, Failed(reason))
    /\ failure' = [failure EXCEPT ![t] = reason]
    /\ gpc' = [gpc EXCEPT ![t] = "yFailed"]

\* line 117 without its return: control falls through to lines 118-120
Mut_ResumeNoDevice(t) ==
    /\ Idle(t)
    /\ gpc[t] = "yNoDevice"
    /\ LOCK' = Free
    /\ device' = [device EXCEPT ![t] = DEVICE]
    /\ append(t, Downloading)
    /\ gpc' = [gpc EXCEPT ![t] = "yDownloading"]
    /\ UNCHANGED <<nCalls, DEVICE, LAST_ERROR, keyfile, nDevices, lastOk, keygens>>
    /\ UNCHANGED <<gexc, tmp, requested, installedOn, cleanup>>
    /\ UNCHANGED cvars
    /\ UNCHANGED <<svars, failure, pvars>>

\* line 117: resumed after NoDevice, the generator returns and leaves the with block
ResumeNoDevice(t) ==
    /\ Idle(t)
    /\ gpc[t] = "yNoDevice"
    /\ LOCK' = Free
    /\ gpc' = [gpc EXCEPT ![t] = "done"]
    /\ UNCHANGED <<nCalls, DEVICE, LAST_ERROR, keyfile, nDevices, lastOk, keygens>>
    /\ UNCHANGED <<device, out, gexc, tmp, requested, installedOn, cleanup>>
    /\ UNCHANGED cvars
    /\ UNCHANGED <<svars, failure, pvars>>

\* lines 121-122: resumed after Downloading, create the temporary directory
ResumeDownloading(t) ==
    /\ Idle(t)
    /\ gpc[t] = "yDownloading"
    /\ \E ok \in BOOLEAN :
        IF ok
        THEN /\ tmp' = [tmp EXCEPT ![t] = "dir"]
             /\ gpc' = [gpc EXCEPT ![t] = "download"]
             /\ UNCHANGED <<LAST_ERROR, gexc, out, failure>>
        ELSE /\ InstallFail(t, "mkdtemp")
             /\ UNCHANGED tmp
    /\ UNCHANGED <<nCalls, LOCK, DEVICE, keyfile, nDevices, lastOk, keygens>>
    /\ UNCHANGED <<device, requested, installedOn, cleanup>>
    /\ UNCHANGED cvars
    /\ UNCHANGED <<svars, pvars>>

\* what lines 124-130 leave in the temporary directory for each way they end:
\* urlopen raises before payload.apk is opened; open creates it; the loop
\* raises, or reaches the empty chunk, after any number of chunks were written
DownloadOutcomes == {"urlopen", "open", "read", "ok"}
DownloadLeaves(o) == IF o \in {"urlopen", "open"} THEN "dir" ELSE "file"

\* line 132 moved above the with statement of line 125
Mut_Download(t) ==
    /\ gpc[t] = "download"
    /\ requested' = [requested EXCEPT ![t] = TRUE]
    /\ \E o \in DownloadOutcomes :
        /\ tmp' = [tmp EXCEPT ![t] = DownloadLeaves(o)]
        /\ IF o = "ok"
           THEN /\ append(t, Installing)
                /\ gpc' = [gpc EXCEPT ![t] = "yInstalling"]
                /\ UNCHANGED <<LAST_ERROR, gexc, failure>>
           ELSE /\ gexc' = [gexc EXCEPT ![t] = "download"]
                /\ set_error("download")
                /\ failure' = [failure EXCEPT ![t] = "download"]
                /\ out' = [out EXCEPT ![t] = @ \o <<Installing, Failed("download")>>]
                /\ gpc' = [gpc EXCEPT ![t] = "yFailed"]
    /\ UNCHANGED <<nCalls, LOCK, DEVICE, keyfile, nDevices, lastOk, keygens>>
    /\ UNCHANGED <<device, installedOn, cleanup>>
    /\ UNCHANGED cvars
    /\ UNCHANGED <<svars, pvars>>

\* lines 124-132: open the request and the local file, copy the chunks until
\* the empty one, yield Installing
Download(t) ==
    /\ gpc[t] = "download"
    /\ requested' = [requested EXCEPT ![t] = TRUE]
    /\ \E o \in DownloadOutcomes :
        /\ tmp' = [tmp EXCEPT ![t] = DownloadLeaves(o)]
        /\ IF o = "ok"
           THEN /\ append(t, Installing)
                /\ gpc' = [gpc EXCEPT ![t] = "yInstalling"]
                /\ UNCHANGED <<LAST_ERROR, gexc, failure>>
           ELSE InstallFail(t, "download")
    /\ UNCHANGED <<nCalls, LOCK, DEVICE, keyfile, nDevices, lastOk, keygens>>
    /\ UNCHANGED <<device, installedOn, cleanup>>
    /\ UNCHANGED cvars
    /\ UNCHANGED <<svars, pvars>>

\* line 133 calling install() on the global slot
Mut_InstallTarget(t) == DEVICE

\* the object line 133 calls install() on: the local `device`
InstallTarget(t) == device[t]

\* lines 133 and 134 swapped: Complete is yielded before install() is called
Mut_ResumeInstalling(t) ==
    /\ Idle(t)
    /\ gpc[t] = "yInstalling"
    /\ append(t, Complete)
    /\ gpc' = [gpc EXCEPT ![t] = "yComplete"]
    /\ UNCHANGED shared
    /\ UNCHANGED <<device, gexc, tmp, requested, installedOn, cleanup>>
    /\ UNCHANGED cvars
    /\ UNCHANGED <<svars, failure, pvars>>

\* line 133: resumed after Installing, device.install(apk_path) is invoked
ResumeInstalling(t) ==
    /\ Idle(t)
    /\ gpc[t] = "yInstalling"
    /\ installedOn' = [installedOn EXCEPT ![t] = InstallTarget(t)]
    /\ gpc' = [gpc EXCEPT ![t] = "install"]
    /\ UNCHANGED shared
    /\ UNCHANGED <<device, out, gexc, tmp, requested, cleanup>>
    /\ UNCHANGED cvars
    /\ UNCHANGED <<svars, failure, pvars>>

\* lines 133-134: device.install() returns and Complete is yielded, or it raises
DeviceInstall(t) ==
    /\ gpc[t] = "install"
    /\ \E ok \in BOOLEAN :
        IF ok
        THEN /\ append(t, Complete)
             /\ gpc' = [gpc EXCEPT ![t] = "yComplete"]
             /\ UNCHANGED <<LAST_ERROR, gexc, failure>>
        ELSE InstallFail(t, "install")
    /\ UNCHANGED <<nCalls, LOCK, DEVICE, keyfile, nDevices, lastOk, keygens>>
    /\ UNCHANGED <<device, tmp, requested, installedOn, cleanup>>
    /\ UNCHANGED cvars
    /\ UNCHANGED <<svars, pvars>>

\* lines 136-140: resumed after Complete: remove the file, then the directory;
\* an OSError of either is ignored; the generator ends
ResumeComplete(t) ==
    /\ Idle(t)
    /\ gpc[t] = "yComplete"
    /\ \E left \in {"none", "dir", tmp[t]} :
        /\ tmp' = [tmp EXCEPT ![t] = left]
        /\ cleanup' = [cleanup EXCEPT ![t] = IF left = "none" THEN "ok" ELSE "failed"]
    /\ gpc' = [gpc EXCEPT ![t] = "done"]
    /\ UNCHANGED shared
    /\ UNCHANGED <<device, out, gexc, requested, installedOn>>
    /\ UNCHANGED cvars
    /\ UNCHANGED <<svars, failure, pvars>>

\* line 143: resumed after Failed, the generator falls off its end
ResumeFailed(t) ==
    /\ Idle(t)
    /\ gpc[t] = "yFailed"
    /\ gpc' = [gpc EXCEPT ![t] = "done"]
    /\ UNCHANGED shared
    /\ UNCHANGED <<device, out, gexc, tmp, requested, installedOn, cleanup>>
    /\ UNCHANGED cvars
    /\ UNCHANGED <<svars, failure, pvars>>

\* the caller closes (or drops) a suspended generator: GeneratorExit is raised
\* at the yield; it is no Exception, so line 141 does not catch it, and the
\* with block it leaves (lines 114-117) releases the lock
Close(t) ==
    /\ Idle(t)
    /\ gpc[t] \in {"yNoDevice", "yDownloading", "yInstalling", "yComplete", "yFailed"}
    /\ LOCK' = IF gpc[t] = "yNoDevice" THEN Free ELSE LOCK
    /\ gpc' = [gpc EXCEPT ![t] = "done"]
    /\ UNCHANGED <<nCalls, DEVICE, LAST_ERROR, keyfile, nDevices, lastOk, keygens>>
    /\ UNCHANGED <<device, out, gexc, tmp, requested, installedOn, cleanup>>
    /\ UNCHANGED cvars
    /\ UNCHANGED <<svars, failure, pvars>>

\* ---- scan_url(url) ----------------------------------------------------------

\* Strings the parser looks into are sequences of characters.  A document is
\* the sequence of events HTMLParser.feed() delivers: start tags (tag name
\* lowercased, href attribute or none), text, end tags.
NoHref == <<>>
StartTag(tag, href) == [kind |-> "start", tag |-> tag, href |-> href, data |-> <<>>]
EndTag(tag) == [kind |-> "end", tag |-> tag, href |-> NoHref, data |-> <<>>]
Text(data) == [kind |-> "data", tag |-> "", href |-> NoHref, data |-> data]

\* str.lower(), on the letters that occur
lower_char(c) ==
    CASE c = "A" -> "a" [] c = "P" -> "p" [] c = "K" -> "k" [] c = "Y" -> "y"
      [] c = "F" -> "f" [] OTHER -> c
lower(str) == [i \in 1..Len(str) |-> lower_char(str[i])]

\* str.endswith(suffix)
endswith(str, suffix) ==
    /\ Len(str) >= Len(suffix)
    /\ SubSeq(str, Len(str) - Len(suffix) + 1, Len(str)) = suffix

\* str.strip()
Whitespace == {" ", "\n", "\t"}
strip(str) ==
    LET kept == {i \in 1..Len(str) : str[i] \notin Whitespace}
    IN  IF kept = {} THEN <<>>
        ELSE SubSeq(str, CHOOSE i \in kept : \A j \in kept : i <= j,
                         CHOOSE i \in kept : \A j \in kept : i >= j)

\* os.path.basename(path): what follows the last "/"
basename(path) ==
    LET slashes == {i \in 1..Len(path) : path[i] = "/"}
    IN  IF slashes = {} THEN path
        ELSE SubSeq(path, (CHOOSE i \in slashes : \A j \in slashes : i >= j) + 1, Len(path))

\* urljoin(url, href), left uninterpreted
urljoin(url, href) == <<"urljoin", url, href>>

DotApk == <<".", "a", "p", "k">>

\* _ApkLinkParser.__init__ (lines 66-70); _current_href None is open = FALSE
NewParser == [open |-> FALSE, href |-> NoHref, text |-> <<>>, items |-> <<>>]

\* handle_starttag (lines 72-78)
handle_starttag(parser, tag, href) ==
    IF tag # "a" THEN parser
    ELSE IF href # NoHref /\ endswith(lower(href), DotApk)
    THEN [parser EXCEPT !.open = TRUE, !.href = href, !.text = <<>>]
    ELSE parser

\* handle_data (lines 80-82); the pieces are joined at line 89
handle_data(parser, data) ==
    IF parser.open THEN [parser EXCEPT !.text = @ \o data] ELSE parser

\* handle_endtag (lines 84-97)
handle_endtag(parser, tag, url) ==
    IF tag # "a" THEN parser
    ELSE IF ~parser.open THEN parser
    ELSE LET name == strip(parser.text)
             entry == [name |-> IF name # <<>> THEN name ELSE basename(parser.href),
                       url |-> urljoin(url, parser.href)]
         IN  [parser EXCEPT !.items = Append(@, entry),
                            !.open = FALSE, !.href = NoHref, !.text = <<>>]

handle(parser, event, url) ==
    CASE event.kind = "start" -> handle_starttag(parser, event.tag, event.href)
      [] event.kind = "data" -> handle_data(parser, event.data)
      [] event.kind = "end" -> handle_endtag(parser, event.tag, url)

\* parser.feed(html) (line 104), one event after the other
RECURSIVE feed(_, _, _)
feed(parser, document, url) ==
    IF document = <<>> THEN parser
    ELSE feed(handle(parser, Head(document), url), Tail(document), url)

\* lines 103-105: what scan_url returns for a document it could fetch
Url == "http://host/list/"
apk_links(document) == feed(NewParser, document, Url).items

\* documents the server may answer with
Href_x == <<"x", ".", "a", "p", "k">>
Href_Y == <<"d", "/", "Y", ".", "A", "P", "K">>
Href_t == <<"y", ".", "t", "x", "t">>
Foo == <<"F", "o", "o">>
Blank == <<" ">>
Listings ==
    {<<StartTag("a", Href_x), Text(Foo), EndTag("a")>>,
     <<StartTag("a", Href_t), Text(Foo), EndTag("a")>>}

\* lines 103-105 on each of them
ListingLinks == {apk_links(document) : document \in Listings}

\* lines 62-63: the call clears the error; nothing before the try can raise
scan_url(t) ==
    /\ Idle(t)
    /\ nCalls < MaxCalls
    /\ nCalls' = nCalls + 1
    /\ set_error("")
    /\ spc' = [spc EXCEPT ![t] = "fetch"]
    /\ sret' = [sret EXCEPT ![t] = NotScanned]
    /\ cret' = [cret EXCEPT ![t] = NotReturned]
    /\ failure' = [failure EXCEPT ![t] = ""]
    /\ UNCHANGED <<LOCK, DEVICE, keyfile, nDevices, lastOk, keygens, cpc, cdev>>
    /\ UNCHANGED <<gvars, pvars>>

\* a scan that runs inside the device lock
Mut_ScanFetch(t) ==
    /\ spc[t] = "fetch"
    /\ LockAvailable
    /\ spc' = [spc EXCEPT ![t] = "idle"]
    /\ \/ /\ \E links \in ListingLinks :
                sret' = [sret EXCEPT ![t] = Returned(links)]
          /\ UNCHANGED <<LAST_ERROR, failure>>
       \/ /\ set_error("urlopen")
          /\ failure' = [failure EXCEPT ![t] = "urlopen"]
          /\ sret' = [sret EXCEPT ![t] = Returned(<<>>)]
    /\ UNCHANGED <<nCalls, LOCK, DEVICE, keyfile, nDevices, lastOk, keygens>>
    /\ UNCHANGED <<cvars, gvars, pvars>>

\* lines 99-108: fetch within the 15 s timeout, decode, parse and return the
\* links; any exception is recorded and an empty list is returned.  No
\* statement here touches _LOCK or _DEVICE.
ScanFetch(t) ==
    /\ spc[t] = "fetch"
    /\ spc' = [spc EXCEPT ![t] = "idle"]
    /\ \/ /\ \E links \in ListingLinks :
                sret' = [sret EXCEPT ![t] = Returned(links)]
          /\ UNCHANGED <<LAST_ERROR, failure>>
       \/ /\ set_error("urlopen")
          /\ failure' = [failure EXCEPT ![t] = "urlopen"]
          /\ sret' = [sret EXCEPT ![t] = Returned(<<>>)]
    /\ UNCHANGED <<nCalls, LOCK, DEVICE, keyfile, nDevices, lastOk, keygens>>
    /\ UNCHANGED <<cvars, gvars, pvars>>

\* ---- the link parser on its own ---------------------------------------------

Events ==
    {StartTag("a", Href_x), StartTag("a", Href_Y), StartTag("a", Href_t),
     StartTag("a", NoHref), Text(Foo), Text(Blank), EndTag("a")}
Documents == UNION {[1..n -> Events] : n \in 0..MaxTokens}

ParseInit ==
    /\ Init!1 /\ Init!2 /\ Init!3 /\ Init!4 /\ Init!5 /\ Init!6 /\ Init!7
    /\ Init!8 /\ Init!9 /\ Init!10 /\ Init!11 /\ Init!12 /\ Init!13 /\ Init!14
    /\ Init!15 /\ Init!16 /\ Init!17 /\ Init!18 /\ Init!19 /\ Init!20
    /\ Init!21 /\ Init!22
    /\ html \in Documents
    /\ items = NotScanned

\* lines 103-105 on the document
Parse ==
    /\ items = NotScanned
    /\ items' = Returned(apk_links(html))
    /\ UNCHANGED <<shared, cvars, gvars, svars, failure, html>>

ParseSpec == ParseInit /\ [][Parse]_vars

\* ---- the system ------------------------------------------------------------

\* steps a running call takes by itself
Step(t) ==
    \/ ConnectAcquire(t)
    \/ ConnectHandshake(t)
    \/ ConnectReturn(t)
    \/ Snapshot(t)
    \/ Download(t)
    \/ DeviceInstall(t)
    \/ ScanFetch(t)

\* steps the caller decides to take
Call(t) ==
    \/ \E ip \in Addresses : connect(t, ip)
    \/ install_apk(t)
    \/ scan_url(t)
    \/ ResumeNoDevice(t)
    \/ ResumeDownloading(t)
    \/ ResumeInstalling(t)
    \/ ResumeComplete(t)
    \/ ResumeFailed(t)
    \/ Close(t)

Next == \E t \in Callers : Call(t) \/ Step(t)

Spec == Init /\ [][Next]_vars

\* a running call is scheduled again and again; a caller is never obliged to
\* start a call, to resume a generator or to close it
FairSpec == Spec /\ \A t \in Callers : WF_vars(Step(t))

\* ---- properties ------------------------------------------------------------

Delivered(t) == {out[t][i] : i \in 1..Len(out[t])}
Failures(t) == {i \in 1..Len(out[t]) : out[t][i][1] = "Install failed"}
Reasons == {"mkdtemp", "download", "install"}
Prefix(q, n) == SubSeq(q, 1, n)
SuccessSequence == <<Downloading, Installing, Complete>>
AllowedSequences ==
    {<<NoDevice>>}
    \cup {Prefix(SuccessSequence, n) : n \in 0..3}
    \cup {Append(Prefix(SuccessSequence, n), Failed(r)) : n \in 0..3, r \in Reasons}

\* C1: a generator whose snapshot found _DEVICE empty delivers exactly
\* [NoDevice]: it creates no temporary directory, issues no download request,
\* never calls device.install, and delivers nothing after NoDevice.
C1_NoDeviceOnly ==
    \A t \in Callers :
        device[t] = None =>
            /\ out[t] = <<NoDevice>>
            /\ gpc[t] \in {"yNoDevice", "done"}
            /\ tmp[t] = "none"
            /\ ~requested[t]
            /\ installedOn[t] = Unset

\* a generator that found the slot empty was resumed and has ended
C1_Witness ==
    \E t \in Callers : device[t] = None /\ gpc[t] = "done" /\ out[t] = <<NoDevice>>

\* C2: a generator that snapshotted a session and whose download and device
\* install both succeeded has delivered exactly [Downloading, Installing,
\* Complete] when it ends; Installing is delivered only after the download has
\* finished and Complete only after device.install has returned.
C2_SuccessOrder ==
    \A t \in Callers :
        /\ (gpc[t] = "done" /\ installedOn[t] # Unset /\ gexc[t] = "")
                => out[t] = SuccessSequence
        /\ Installing \in Delivered(t)
                => requested[t] /\ gpc[t] \notin {"snapshot", "yDownloading", "download"}
        /\ Complete \in Delivered(t)
                => /\ installedOn[t] # Unset
                   /\ gpc[t] \in {"yComplete", "done"}
                   /\ out[t] = SuccessSequence

\* a whole successful run, its temporary directory removed
C2_Witness ==
    \E t \in Callers :
        gpc[t] = "done" /\ out[t] = SuccessSequence /\ tmp[t] = "none" /\ gexc[t] = ""

\* C3: when the download fails (urlopen, open, a read or a write), the sequence
\* is exactly [Downloading, Failed(reason)]: Installing is never delivered and
\* device.install is never invoked.
C3_DownloadFailure ==
    \A t \in Callers :
        gexc[t] = "download" =>
            /\ out[t] = <<Downloading, Failed("download")>>
            /\ installedOn[t] = Unset
            /\ gpc[t] \in {"yFailed", "done"}

\* a download that failed after payload.apk was created, its sequence ended
C3_Witness ==
    \E t \in Callers : gexc[t] = "download" /\ tmp[t] = "file" /\ gpc[t] = "done"

\* C4: a failure at any stage yields exactly one Failed element, the last of
\* the sequence, and no exception reaches the caller: every sequence is a
\* prefix of [Downloading, Installing, Complete] optionally followed by one
\* Failed, or is [NoDevice].
C4_SingleTerminalFailure ==
    \A t \in Callers :
        /\ out[t] \in AllowedSequences
        /\ Cardinality(Failures(t)) <= 1
        /\ gexc[t] # "" =>
            /\ Failures(t) = {Len(out[t])}
            /\ out[t][Len(out[t])] = Failed(gexc[t])
            /\ gpc[t] \in {"yFailed", "done"}
        /\ gexc[t] = "" => Failures(t) = {}

\* device.install raised after a successful download; the sequence has ended
C4_Witness ==
    \E t \in Callers :
        gpc[t] = "done" /\ out[t] = <<Downloading, Installing, Failed("install")>>

\* C5: a non-loopback connect whose handshake fails returns the failure result
\* and leaves no active session, whatever the state it started in.
C5_FailedHandshakeLeavesNoSession ==
    [][\A t \in Callers :
        (cpc[t] = "handshake" /\ cpc'[t] = "idle")
            => (cret'[t] = ConnectionFailed /\ DEVICE' = None)]_vars

\* C6: a step in which connect("127.0.0.1") returns yields the simulation
\* result and changes neither the lock, the slot, the last error, the key files
\* nor the sessions; the caller is not made to wait.
C6_LoopbackFrame ==
    [][\A t \in Callers :
        (cret'[t] = ConnectedSim /\ cret[t] # ConnectedSim)
            => /\ cpc[t] = "idle" /\ cpc'[t] = "idle"
               /\ UNCHANGED <<LOCK, DEVICE, LAST_ERROR, keyfile, keygens, nDevices, lastOk>>
               /\ UNCHANGED gvars]_vars

\* the simulation result was returned while another caller holds the lock and
\* an error is recorded
C6_Witness ==
    \E t \in Callers :
        cret[t] = ConnectedSim /\ LOCK \notin {Free, ByInstall(t)} /\ LAST_ERROR # ""

\* C7: once every connect has returned, the slot holds the session of the
\* connect that was last to leave its critical section successfully (its
\* initial value if there was none), and the slot never holds a session whose
\* handshake has not completed.
C7_LastSuccessfulConnectWins ==
    /\ DEVICE \in authenticated \cup {None}
    /\ (\A t \in Callers : cpc[t] = "idle") => DEVICE = lastOk

\* two callers have connected successfully and both have returned
C7_Witness ==
    /\ \A t \in Callers : cpc[t] = "idle" /\ cret[t] = Connected
    /\ DEVICE = 2 /\ lastOk = 2

\* C8: between the yield of Downloading and the yield of Complete or Failed the
\* generator does not hold the lock, so a connect that waits for the lock is
\* not waiting for this generator.
InStages(t) == gpc[t] \in {"yDownloading", "download", "yInstalling", "install"}
C8_StagesOutsideLock ==
    \A t \in Callers :
        InStages(t) =>
            /\ LOCK # ByInstall(t)
            /\ \A u \in Callers :
                (cpc[u] = "acquire" /\ \A v \in Callers : LOCK \notin {ByConnect(v), ByInstall(v)})
                    => ENABLED ConnectAcquire(u)

\* a connect is inside its critical section while a download is running
C8_Witness ==
    \E t, u \in Callers :
        gpc[t] = "download" /\ cpc[u] = "handshake" /\ LOCK = ByConnect(u)

\* C9: no operation blocks indefinitely: a connect that waits for the lock
\* eventually gets past it, and so does the snapshot of an install_apk,
\* whatever the other callers do with their generators.
C9_NoIndefiniteBlocking ==
    \A t \in Callers :
        /\ (cpc[t] = "acquire") ~> (cpc[t] # "acquire")
        /\ (gpc[t] = "snapshot") ~> (gpc[t] # "snapshot")

\* C10: device.install is invoked on the session the generator read under the
\* lock, also when a connect has replaced the slot since.
C10_InstallOnSnapshot ==
    \A t \in Callers :
        installedOn[t] # Unset =>
            /\ installedOn[t] = device[t]
            /\ device[t] \in authenticated

\* device.install runs on the snapshotted session while the slot holds a newer one
C10_Witness ==
    \E t \in Callers :
        gpc[t] = "install" /\ installedOn[t] = device[t] /\ DEVICE # device[t]

\* C11: whenever a generator has yielded Complete and has ended, the temporary
\* file and its directory are gone, unless their removal was tried and failed.
C11_ArtifactRemovedAfterComplete ==
    \A t \in Callers :
        (Complete \in Delivered(t) /\ gpc[t] = "done" /\ cleanup[t] # "failed")
            => tmp[t] = "none"

\* C12 as stated: over any run, keygen is invoked at most once for the key path.
C12_KeygenAtMostOnce == keygens <= 1

\* C12: keygen is invoked only by a resolution that finds no private key file,
\* one invocation per such resolution, and once the key path holds a private
\* key no resolution changes the files: every later resolution reads what the
\* first one read.
C12_KeygenOnlyWhenAbsent ==
    [][/\ keygens' # keygens => (keyfile = "absent" /\ keygens' = keygens + 1)
       /\ keyfile # "absent" => keyfile' = keyfile]_vars

\* two connects have resolved the key path and read the pair the first generated
C12_Witness == keygens = 1 /\ keyfile = "both" /\ nDevices = 2

\* C13: a caller whose latest operation failed, and who has started no other
\* operation since, gets the description of that failure from last_error(),
\* whatever the other callers have been doing.
C13_OwnFailureReadable ==
    \A t \in Callers :
        (Idle(t) /\ failure[t] # "") => last_error = failure[t]

\* C14: a scan_url that has started can always finish, whoever holds the lock;
\* it returns a list, the empty one when it failed; and no step of it changes
\* the lock, the slot, or anything of a connect or of a generator.
C14_ScanAbsorbsAndStaysOutside ==
    [][\A t \in Callers :
        /\ spc[t] = "fetch" => ENABLED ScanFetch(t)
        /\ spc'[t] # spc[t] =>
            /\ LOCK' = LOCK /\ DEVICE' = DEVICE
            /\ cpc' = cpc /\ cdev' = cdev /\ gvars' = gvars
            /\ \A u \in Callers \ {t} : cret'[u] = cret[u]
            /\ spc'[t] = "idle" =>
                /\ sret'[t][1] = "returned"
                /\ failure'[t] # "" => sret'[t] = Returned(<<>>)]_vars

\* a scan has failed and returned the empty list while another caller's
\* connect is inside its critical section
C14_Witness ==
    \E t, u \in Callers :
        /\ t # u
        /\ spc[t] = "idle" /\ sret[t] = Returned(<<>>) /\ failure[t] = "urlopen"
        /\ cpc[u] = "handshake" /\ LOCK = ByConnect(u)

\* the anchors of a document, as the claim reads it: every anchor start tag is
\* an anchor, and its own text is the text that follows it up to the next tag
RECURSIVE OwnText(_, _)
OwnText(document, i) ==
    IF i > Len(document) \/ document[i].kind # "data" THEN <<>>
    ELSE document[i].data \o OwnText(document, i + 1)
IsApkAnchor(event) ==
    /\ event.kind = "start" /\ event.tag = "a"
    /\ event.href # NoHref /\ endswith(lower(event.href), DotApk)
AnchorEntry(document, i) ==
    LET text == strip(OwnText(document, i + 1))
    IN  [name |-> IF text # <<>> THEN text ELSE basename(document[i].href),
         url |-> urljoin(Url, document[i].href)]
RECURSIVE ApkAnchorsFrom(_, _)
ApkAnchorsFrom(document, i) ==
    IF i > Len(document) THEN <<>>
    ELSE IF IsApkAnchor(document[i])
    THEN <<AnchorEntry(document, i)>> \o ApkAnchorsFrom(document, i + 1)
    ELSE ApkAnchorsFrom(document, i + 1)

\* C15: for every document made of anchor start tags, text and anchor end
\* tags, the parser returns one entry per anchor whose href ends in ".apk"
\* whatever the case, none for the others, in document order with duplicates
\* kept, each named by the anchor's own trimmed text or, when that is empty,
\* by the basename of its href.
C15_OneEntryPerApkAnchor ==
    items # NotScanned => items = Returned(ApkAnchorsFrom(html, 1))

\* C16: the step in which a non-loopback connect fails, at key resolution, at
\* reading a key file, at building the signer or at the handshake, leaves
\* _DEVICE as it was and the lock free; _DEVICE changes only in the step of a
\* handshake that succeeds, to the new session.
C16_FailedConnectWritesNothing ==
    [][/\ \A t \in Callers :
            (cpc[t] \in {"acquire", "handshake"} /\ cpc'[t] = "idle") =>
                /\ cret'[t] = ConnectionFailed
                /\ DEVICE' = DEVICE
                /\ LOCK' = Free
       /\ DEVICE' # DEVICE =>
            \E t \in Callers :
                /\ cpc[t] = "handshake" /\ cpc'[t] = "return"
                /\ nDevices' = nDevices + 1 /\ DEVICE' = nDevices'
      ]_vars

\* a handshake has failed where an earlier connect had left a session
C16_Witness ==
    \E t \in Callers :
        /\ cpc[t] = "idle" /\ cret[t] = ConnectionFailed /\ failure[t] = "handshake"
        /\ DEVICE = 1 /\ nDevices = 1 /\ LOCK = Free

\* C17: a generator suspended after delivering a milestone (NoDevice,
\* Downloading, Installing, Complete or Failed) does not hold the lock.
C17_SuspendedWithoutLock ==
    \A t \in Callers :
        gpc[t] \in {"yNoDevice", "yDownloading", "yInstalling", "yComplete", "yFailed"}
            => LOCK # ByInstall(t)

\* C18: device.install has only ever been invoked on a session that a
\* non-loopback connect put into _DEVICE after its handshake succeeded, with
\* _DEVICE non-empty at that moment; and no step of a connect, a scan_url or a
\* generator makes a non-empty _DEVICE empty.
C18_InstallNeedsSession ==
    /\ [](\A t \in Callers :
            installedOn[t] # Unset =>
                (installedOn[t] \in authenticated /\ DEVICE # None))
    /\ [][DEVICE # None => DEVICE' # None]_vars

\* device.install runs on the session in the slot after another caller's
\* connect has failed
C18_Witness ==
    \E t, u \in Callers :
        /\ gpc[t] = "install" /\ installedOn[t] = 1 /\ DEVICE = 1
        /\ cpc[u] = "idle" /\ failure[u] = "handshake"

\* C19: a generator whose device.install raised after a complete download has
\* delivered [Downloading, Installing, Failed], and once it has ended the
\* temporary file and directory of that run are eventually removed.
C19_FailedInstallCleansUp ==
    \A t \in Callers :
        /\ [](gexc[t] = "install" =>
                out[t] = <<Downloading, Installing, Failed("install")>>)
        /\ (gexc[t] = "install" /\ gpc[t] = "done")
                ~> (gexc[t] = "install" /\ tmp[t] = "none")
====
